---- MODULE Spec2Model ----
(***************************************************************************)
(* Real-Address-Generator-API: the /api/generate handler, the Nominatim    *)
(* fallback cascade of AddressFetcher, its rate limiter, the country       *)
(* table and the persona generator.                                        *)
(*                                                                         *)
(* Text is a TLA+ string; Python's None is the value None below.  Time is  *)
(* counted in tenths of a second.                                          *)
(***************************************************************************)
EXTENDS Integers, Sequences, FiniteSets, TLC

\* ------------------------------------------------------------------ text

None == "<None>"

\* Python truthiness of an optional text: None and "" are falsy.
Truthy(v) == v # None /\ v # ""

\* a or b
Or(a, b) == IF Truthy(a) THEN a ELSE b

Ch(s, i) == SubSeq(s, i, i)

UpperChars == <<"A", "B", "C", "D", "E", "F", "G", "H", "I", "J", "K", "L", "M",
                "N", "O", "P", "Q", "R", "S", "T", "U", "V", "W", "X", "Y", "Z">>

LowerChars == <<"a", "b", "c", "d", "e", "f", "g", "h", "i", "j", "k", "l", "m",
                "n", "o", "p", "q", "r", "s", "t", "u", "v", "w", "x", "y", "z">>

LowerChar(c) ==
    IF \E i \in 1..Len(UpperChars) : UpperChars[i] = c
    THEN LowerChars[CHOOSE i \in 1..Len(UpperChars) : UpperChars[i] = c]
    ELSE c

UpperChar(c) ==
    IF \E i \in 1..Len(LowerChars) : LowerChars[i] = c
    THEN UpperChars[CHOOSE i \in 1..Len(LowerChars) : LowerChars[i] = c]
    ELSE c

\* str.upper()
RECURSIVE Upper(_)
Upper(s) == IF s = "" THEN "" ELSE UpperChar(Head(s)) \o Upper(Tail(s))

\* str.lower()
RECURSIVE Lower(_)
Lower(s) == IF s = "" THEN "" ELSE LowerChar(Head(s)) \o Lower(Tail(s))

RECURSIVE LStrip(_, _)
LStrip(s, cs) == IF s # "" /\ Head(s) \in cs THEN LStrip(Tail(s), cs) ELSE s

RECURSIVE RStrip(_, _)
RStrip(s, cs) ==
    IF s # "" /\ Ch(s, Len(s)) \in cs THEN RStrip(SubSeq(s, 1, Len(s) - 1), cs) ELSE s

\* str.strip(chars); str.strip() strips whitespace
StripChars(s, cs) == RStrip(LStrip(s, cs), cs)

Whitespace == {" "}

\* " ".join(parts)
RECURSIVE JoinSpace(_)
JoinSpace(parts) ==
    IF parts = <<>> THEN ""
    ELSE IF Len(parts) = 1 THEN parts[1]
    ELSE parts[1] \o " " \o JoinSpace(Tail(parts))

\* sub in s
Contains(s, sub) ==
    \E i \in 1..(Len(s) - Len(sub) + 1) : SubSeq(s, i, i + Len(sub) - 1) = sub

\* dict.get(k): None when the key is absent
Get(d, k) == IF k \in DOMAIN d THEN d[k] ELSE None

\* d1 overlaid by d2 (later assignments to a dict win)
Overlay(d1, d2) ==
    [k \in (DOMAIN d1) \cup (DOMAIN d2) |-> IF k \in DOMAIN d2 THEN d2[k] ELSE d1[k]]

\* ------------------------------------------------------- country manager

\* Locale('en').territories, an excerpt
territories_en ==
    [US |-> "United States", GB |-> "United Kingdom", BR |-> "Brazil", AQ |-> "Antarctica",
     RU |-> "Russia", KR |-> "South Korea", KP |-> "North Korea"]

\* Locale('zh').territories, the same excerpt (transliterated)
territories_zh ==
    [US |-> "Meiguo", GB |-> "Yingguo", BR |-> "Baxi", AQ |-> "Nanjizhou",
     RU |-> "Eluosi", KR |-> "Hanguo", KP |-> "Chaoxian"]

manual_aliases ==
    [k \in {"america", "usa", "uk", "england", "great britain", "russia",
            "south korea", "north korea"} |->
        CASE k \in {"america", "usa"} -> "US"
          [] k \in {"uk", "england", "great britain"} -> "GB"
          [] k = "russia" -> "RU"
          [] k = "south korea" -> "KR"
          [] k = "north korea" -> "KP"]

\* name.lower() -> code for one territory table
NameTable(terr) ==
    [n \in {Lower(terr[c]) : c \in DOMAIN terr} |->
        CHOOSE c \in DOMAIN terr : Lower(terr[c]) = n]

\* CountryManager.load_country_data
country_map ==
    LET names == Overlay(NameTable(territories_en), NameTable(territories_zh))
        valid_codes == {names[n] : n \in DOMAIN names}
        codes == [k \in {Lower(c) : c \in valid_codes} |->
                     CHOOSE c \in valid_codes : Lower(c) = k]
    IN  Overlay(Overlay(names, codes), manual_aliases)

\* normalize without lower()
normalize_NoLower(input_str) ==
    IF ~Truthy(input_str) THEN None
    ELSE Get(country_map, StripChars(input_str, Whitespace))

\* CountryManager.normalize
normalize(input_str) ==
    IF ~Truthy(input_str) THEN None
    ELSE Get(country_map, Lower(StripChars(input_str, Whitespace)))

\* faker.config.AVAILABLE_LOCALES with the territory Babel parses from each,
\* an excerpt in Faker's order
AVAILABLE_LOCALES ==
    << [loc |-> "en_GB", terr |-> "GB"], [loc |-> "en_US", terr |-> "US"],
       [loc |-> "pt_BR", terr |-> "BR"] >>

\* The characters of locale tags in the order of their code points
CodePoints == "ABCDEFGHIJKLMNOPQRSTUVWXYZ_abcdefghijklmnopqrstuvwxyz"

CodePoint(c) == CHOOSE i \in 1..Len(CodePoints) : Ch(CodePoints, i) = c

\* a <= b for str, as list.sort() compares
RECURSIVE StrLeq(_, _)
StrLeq(a, b) ==
    IF a = "" THEN TRUE
    ELSE IF b = "" THEN FALSE
    ELSE IF Head(a) = Head(b) THEN StrLeq(Tail(a), Tail(b))
    ELSE CodePoint(Head(a)) < CodePoint(Head(b))

\* build_faker_map with the first tag of the list taken in place of the
\* first of the sorted list
build_faker_map_NoSort(locales) ==
    [t \in {locales[i].terr : i \in 1..Len(locales)} \ {None} |->
        LET idx == {i \in 1..Len(locales) : locales[i].terr = t}
            en == {i \in idx : SubSeq(locales[i].loc, 1, 3) = "en_"}
        IN  IF en # {} THEN locales[CHOOSE i \in en : \A j \in en : i <= j].loc
            ELSE locales[CHOOSE i \in idx : \A j \in idx : i <= j].loc]

\* CountryManager._build_faker_map for a list of locales: per territory the
\* first tag of the list that starts with en_, else the first of the sorted tags
build_faker_map(locales) ==
    [t \in {locales[i].terr : i \in 1..Len(locales)} \ {None} |->
        LET idx == {i \in 1..Len(locales) : locales[i].terr = t}
            en == {i \in idx : SubSeq(locales[i].loc, 1, 3) = "en_"}
        IN  IF en # {} THEN locales[CHOOSE i \in en : \A j \in en : i <= j].loc
            ELSE locales[CHOOSE i \in idx :
                            \A j \in idx : StrLeq(locales[i].loc, locales[j].loc)].loc]

\* self.iso_to_faker of the module's CountryManager
iso_to_faker == build_faker_map(AVAILABLE_LOCALES)

\* CountryManager.get_faker_locale on an instance whose map is iso_map
get_faker_locale_of(iso_map, iso_code) ==
    IF ~Truthy(iso_code) THEN "en_US" ELSE
    IF iso_code \in DOMAIN iso_map THEN iso_map[iso_code] ELSE "en_US"

\* CountryManager.get_faker_locale
get_faker_locale(iso_code) == get_faker_locale_of(iso_to_faker, iso_code)

\* The attributes a CountryManager instance has (its methods and fields)
CountryManagerAttrs ==
    {"country_map", "iso_to_faker", "load_country_data", "_build_faker_map",
     "normalize", "get_faker_locale"}

\* ------------------------------------------------- provider (Nominatim)

\* A JSON null in place of a result's address object
JsonNull == [json |-> "null"]

\* Provider results: the keys of a result and of its address object vary.
R_full ==
    [address |-> [house_number |-> "44", road |-> "W 63rd St", city |-> "New York",
                  state |-> "NY", postcode |-> "10023", country |-> "United States"],
     display_name |-> "44, W 63rd St, New York"]

R_town ==
    [address |-> [amenity |-> "Cafe Uno", town |-> "Reading", county |-> "Berkshire",
                  country |-> "United Kingdom"],
     name |-> "Cafe Uno", display_name |-> "Cafe Uno, Reading"]

R_region ==
    [address |-> [pedestrian |-> "Rua A", region |-> "Sul", postcode |-> "80000"],
     name |-> "Rua A"]

R_empty == [address |-> [k \in {} |-> ""], display_name |-> "Somewhere"]

R_null == [address |-> JsonNull, display_name |-> "Nowhere"]

R_noaddr == [name |-> "Thing", display_name |-> "Thing, Nowhere"]

\* What requests.get may give: an exception (timeout, connection error), or a
\* response with a status code and a JSON body
Raises == [raised |-> TRUE, status |-> 0, results |-> <<>>]

Http(status, results) == [raised |-> FALSE, status |-> status, results |-> results]

Responses ==
    { Raises, Http(403, <<>>), Http(500, <<>>), Http(200, <<>>),
      Http(200, <<R_noaddr>>), Http(200, <<R_null>>), Http(200, <<R_empty>>),
      Http(200, <<R_full>>), Http(200, <<R_noaddr, R_town>>),
      Http(200, <<R_null, R_full>>), Http(200, <<R_region, R_town>>) }

\* --------------------------------------------------------- address fetcher

search_keywords ==
    <<"hotel", "restaurant", "school", "cafe", "bakery", "pharmacy",
      "library", "post office", "park", "supermarket", "museum", "hospital">>

major_cities ==
    [US |-> <<"New York", "Los Angeles", "Chicago", "Houston", "Phoenix">>,
     CN |-> <<"Beijing", "Shanghai", "Guangzhou", "Shenzhen">>,
     GB |-> <<"London", "Manchester", "Birmingham">>,
     JP |-> <<"Tokyo", "Osaka", "Kyoto">>,
     DE |-> <<"Berlin", "Munich", "Hamburg">>,
     FR |-> <<"Paris", "Lyon", "Marseille">>]

\* The rate limiter's spacing, 1.1 s
Gap == 11

\* SleepTime without the sleep
SleepTime_NoSleep(current_time, last) == 0

\* AddressFetcher._wait_for_rate_limit: the sleep it decides on from the clock
\* and the last_request_time it reads (0: no sleep)
SleepTime(current_time, last) ==
    LET elapsed == current_time - last
    IN  IF elapsed < Gap THEN Gap - elapsed ELSE 0

\* _wait_for_rate_limit run without interruption: the time at which it
\* returns, which it stores in last_request_time
ReleaseTime(current_time, last) == current_time + SleepTime(current_time, last)

\* QueryText with the zipcode fragment forgotten
QueryText_NoZipcode(keyword, city, zipcode, state, broad_search) ==
    LET city_part == IF Truthy(city) THEN <<"in " \o city>> ELSE <<>>
        state_part == IF Truthy(state) THEN <<state>> ELSE <<>>
    IN  IF ~broad_search
        THEN JoinSpace(<<keyword>> \o city_part \o state_part)
        ELSE JoinSpace(<<keyword \o " in">>)

\* The q text of a query (query_parts joined)
QueryText(keyword, city, zipcode, state, broad_search) ==
    LET zip_part == IF Truthy(zipcode) THEN <<"in " \o zipcode>> ELSE <<>>
        city_part == IF Truthy(city) THEN <<"in " \o city>> ELSE <<>>
        state_part == IF Truthy(state) THEN <<state>> ELSE <<>>
    IN  IF ~broad_search
        THEN JoinSpace(<<keyword>> \o zip_part \o city_part \o state_part)
        ELSE JoinSpace(<<keyword \o " in">>)

\* The params of the GET
Params(country_code, keyword, city, zipcode, state, broad_search) ==
    [q |-> QueryText(keyword, city, zipcode, state, broad_search),
     countrycodes |-> country_code, format |-> "jsonv2", addressdetails |-> 1,
     limit |-> 10, accept_language |-> "native"]

\* The value a call returns when it has no address
NoAddress == [none |-> TRUE]

\* An exception raised inside a call
Raised(what) == [raised |-> what]

\* address_line without the last operand of its or chain
address_line_NoSentinel(result, addr) ==
    LET street == Or(Get(addr, "road"), Or(Get(addr, "pedestrian"),
                     Or(Get(addr, "footway"), Get(addr, "street"))))
        house_num == Get(addr, "house_number")
    IN  IF Truthy(street)
        THEN IF Truthy(house_num) THEN house_num \o " " \o street ELSE street
        ELSE Or(Get(addr, "amenity"), Or(Get(addr, "shop"), Get(result, "name")))

\* address_line with pedestrian looked up before road
address_line_PedestrianFirst(result, addr) ==
    LET street == Or(Get(addr, "pedestrian"), Or(Get(addr, "road"),
                     Or(Get(addr, "footway"), Get(addr, "street"))))
        house_num == Get(addr, "house_number")
    IN  IF Truthy(street)
        THEN IF Truthy(house_num) THEN house_num \o " " \o street ELSE street
        ELSE Or(Get(addr, "amenity"), Or(Get(addr, "shop"),
                Or(Get(result, "name"), "Unknown Street")))

\* _parse_osm_result, lines 158-170: street, house_num and address_line
address_line(result, addr) ==
    LET street == Or(Get(addr, "road"), Or(Get(addr, "pedestrian"),
                     Or(Get(addr, "footway"), Get(addr, "street"))))
        house_num == Get(addr, "house_number")
    IN  IF Truthy(street)
        THEN IF Truthy(house_num) THEN house_num \o " " \o street ELSE street
        ELSE Or(Get(addr, "amenity"), Or(Get(addr, "shop"),
                Or(Get(result, "name"), "Unknown Street")))

\* parse_osm_result with "" in place of a missing postcode and country
parse_osm_result_Placeholders(result) ==
    LET addr == IF "address" \in DOMAIN result THEN result.address ELSE [k \in {} |-> ""]
    IN  IF addr = JsonNull THEN Raised("AttributeError") ELSE
        [address |-> address_line(result, addr),
         city |-> Or(Get(addr, "city"), Or(Get(addr, "town"), Or(Get(addr, "village"),
                     Or(Get(addr, "county"), Get(addr, "municipality"))))),
         state |-> Or(Get(addr, "state"), Or(Get(addr, "province"), Get(addr, "region"))),
         zipcode |-> Or(Get(addr, "postcode"), ""),
         country |-> Or(Get(addr, "country"), ""),
         full_address |-> Get(result, "display_name")]

\* AddressFetcher._parse_osm_result
parse_osm_result(result) ==
    LET addr == IF "address" \in DOMAIN result THEN result.address ELSE [k \in {} |-> ""]
    IN  IF addr = JsonNull THEN Raised("AttributeError") ELSE
        [address |-> address_line(result, addr),
         city |-> Or(Get(addr, "city"), Or(Get(addr, "town"), Or(Get(addr, "village"),
                     Or(Get(addr, "county"), Get(addr, "municipality"))))),
         state |-> Or(Get(addr, "state"), Or(Get(addr, "province"), Get(addr, "region"))),
         zipcode |-> Get(addr, "postcode"),
         country |-> Get(addr, "country"),
         full_address |-> Get(result, "display_name")]

\* ValidResults without the filter
ValidResults_All(results) == 1..Len(results)

\* valid_results = [r for r in results if 'address' in r], as indices
ValidResults(results) == {i \in 1..Len(results) : "address" \in DOMAIN results[i]}

IsRaised(v) == DOMAIN v = {"raised"}

\* The try block of _query_nominatim: what it returns or raises for a
\* response (random.choice picks any of the valid results)
TryBlock(resp) ==
    IF resp.raised THEN {Raised("RequestException")}
    ELSE IF resp.status = 200
         THEN IF resp.results # <<>> /\ ValidResults(resp.results) # {}
              THEN {parse_osm_result(resp.results[i]) : i \in ValidResults(resp.results)}
              ELSE {NoAddress}
         ELSE {NoAddress}

\* ExceptException without the except clause: the exception propagates
ExceptException_Propagates(outcome) == outcome

\* except Exception: the error is logged and the query returns None
ExceptException(outcome) == IF IsRaised(outcome) THEN NoAddress ELSE outcome

\* AddressFetcher._query_nominatim after the GET: the values it may return
QueryReturns(resp) == {ExceptException(o) : o \in TryBlock(resp)}

\* fake.city() for the locale: a city name, or an exception of the generator
FakeCities(locale) ==
    CASE locale = "en_GB" -> {"Leeds", "Port Amy"}
      [] locale = "pt_BR" -> {"Campinas", "Pires"}
      [] OTHER -> {"Springfield", "Lake Ann"}

\* FirstPos with level 1 run for every call
FirstPos_AlwaysSpecific(city, zipcode) == "L1"

\* The cascade of fetch_real_address: the place of the first query
FirstPos(city, zipcode) == IF Truthy(city) \/ Truthy(zipcode) THEN "L1" ELSE "L2a"

\* NextPos with the broad search tried before the major city
NextPos_BroadBeforeMajor(pos, country_code) ==
    CASE pos = "L1" -> "L2a"
      [] pos = "L2a" -> "L2b"
      [] pos = "L2b" -> "L4"
      [] pos = "L4" -> IF country_code \in DOMAIN major_cities THEN "L3" ELSE "return"
      [] pos = "L3" -> "return"

\* NextPos with the random-city level started again after its second attempt
NextPos_RetryRandomCity(pos, country_code) ==
    CASE pos = "L1" -> "L2a"
      [] pos = "L2a" -> "L2b"
      [] pos = "L2b" -> "L2a"
      [] pos = "L3" -> "L4"
      [] pos = "L4" -> "return"

\* The place control goes to when the query (or attempt) at pos gave nothing
NextPos(pos, country_code) ==
    CASE pos = "L1" -> "L2a"
      [] pos = "L2a" -> "L2b"
      [] pos = "L2b" -> IF country_code \in DOMAIN major_cities THEN "L3" ELSE "L4"
      [] pos = "L3" -> "L4"
      [] pos = "L4" -> "return"

\* The cascade level of a place: 1 specific input, 2 random city, 3 major
\* city, 4 broad
LevelOf(pos) ==
    CASE pos = "L1" -> 1 [] pos \in {"L2a", "L2b"} -> 2 [] pos = "L3" -> 3 [] pos = "L4" -> 4

\* CaughtAt without the try of the random-city loop
CaughtAt_Nowhere(pos) == FALSE

\* Whether an exception raised by the query at pos is caught in
\* fetch_real_address (the try of the random-city loop)
CaughtAt(pos) == pos \in {"L2a", "L2b"}

\* ------------------------------------------------------- persona generator

\* fake.name() for the locale
FakeNames(locale) ==
    CASE locale = "en_GB" -> {"Amy Hall"} [] locale = "pt_BR" -> {"Ana Pires"}
      [] OTHER -> {"John Doe"}

\* PersonaGenerator.generate: country_manager.get_faker is looked up first
generate(country_code, fake_name, phone) ==
    IF "get_faker" \notin CountryManagerAttrs THEN Raised("AttributeError")
    ELSE [name |-> fake_name, phone |-> phone]

\* The phone numbers _generate_phone_number may give
SamplePhones == {"+1 201-555-0123"}

\* The longest national number of an example (E.164 allows 15 digits in all)
MaxNational == 12

\* Calling codes of one, two and three digits (US, GB, SH)
CallingCodes == {"1", "44", "290"}

\* The digits example national numbers are cut from
NationalDigits == "7123456781234"

\* phonenumbers.example_number_for_type / example_number: a number with its
\* calling code and its national number, or nothing for a region without one
Example(cc, n) == [country_code |-> cc, national |-> SubSeq(NationalDigits, 1, n)]
NoExample == [country_code |-> None, national |-> None]

\* phonenumbers.format_number(number, PhoneNumberFormat.E164)
E164(number) == "+" \o number.country_code \o number.national

\* phonenumbers.format_number(number, PhoneNumberFormat.INTERNATIONAL): the
\* calling code is set off from the national number
International(number) == "+" \o number.country_code \o " " \o number.national

\* phonenumbers.parse of a text that starts with '+' and the calling code cc
ParseNumber(text, cc) == [country_code |-> cc, national |-> SubSeq(text, Len(cc) + 2, Len(text))]

Min(a, b) == IF a < b THEN a ELSE b
Max(a, b) == IF a > b THEN a ELSE b

\* num_digits_to_randomize with two digits kept in the short case as well
num_digits_to_randomize_KeepTwo(e164_str, cc_len) ==
    Max(0, Min(Len(e164_str) - (cc_len + 1 + 2), 6))

\* _generate_phone_number, lines 44-65: the number of trailing digits replaced
num_digits_to_randomize(e164_str, cc_len) ==
    LET prefix_len == cc_len + 1
        digits_to_keep_len == prefix_len + 2
        first == Min(Len(e164_str) - digits_to_keep_len, 6)
    IN  IF first < 4 THEN Max(0, Len(e164_str) - (prefix_len + 1)) ELSE first

\* The digits random.randint(0, 9) gives here
RandomDigits == {"0", "9"}

\* "".join(str(random.randint(0, 9)) for _ in range(n)): the texts it may give
RECURSIVE RandomParts(_)
RandomParts(n) ==
    IF n = 0 THEN {""} ELSE {d \o r : d \in RandomDigits, r \in RandomParts(n - 1)}

\* fake.phone_number()
FakePhones == {"(555) 010-4477", "555.010.9090"}

\* The calls of _generate_phone_number that may raise: none, the look-up of the
\* example, format_number E164 (line 38), parse (line 74), format_number
\* INTERNATIONAL (line 75 or 81)
PhoneFailures == {"none", "example", "e164", "parse", "international"}

\* new_number_str returned as it is (line 78) replaced by falling through to
\* the fallback
InnerExcept_Fallback(new_number_str) == FakePhones

\* except Exception of the inner try, lines 76-78
InnerExcept(new_number_str) == {new_number_str}

\* PersonaGenerator._generate_phone_number: the phones it may return for an
\* example (or none) when the call named by fails raises
generate_phone_number(example, fails) ==
    IF fails = "example" \/ example = NoExample \/ fails = "e164" THEN FakePhones
    ELSE LET e164_str == E164(example)
             cc_len == Len(example.country_code)
             num == num_digits_to_randomize(e164_str, cc_len)
         IN  IF num > 0
             THEN UNION {LET new_number_str == SubSeq(e164_str, 1, Len(e164_str) - num) \o r
                         IN  IF fails \in {"parse", "international"}
                             THEN InnerExcept(new_number_str)
                             ELSE {International(ParseNumber(new_number_str,
                                                             example.country_code))}
                         : r \in RandomParts(num)}
             ELSE IF fails = "international" THEN FakePhones
             ELSE {International(example)}

\* ----------------------------------------------------------------- handler

\* country_manager.normalize, then the default
CountryCode(country_input) ==
    LET code == normalize(country_input) IN IF ~Truthy(code) THEN "US" ELSE code

\* CityState without the strip
CityState_NoStrip(data) == Or(data.city, "") \o ", " \o Or(data.state, "")

\* f"{c}, {s}".strip(", ")
CityState(data) ==
    StripChars(Or(data.city, "") \o ", " \o Or(data.state, ""), {",", " "})

\* response_model=AddressResponse: every field but zipcode must be a str
ResponseValid(body) ==
    \A f \in {"name", "phone", "address", "city_state", "country", "full_address"} :
        body[f] # None

HttpResponse(status, body) == [status |-> status, body |-> body]

\* _process_generation after fetch_real_address has returned or raised
Respond(country_code, real_address_data, persona) ==
    IF IsRaised(real_address_data)
    THEN HttpResponse(500, [detail |-> "Internal Server Error"])
    ELSE IF real_address_data = NoAddress
    THEN HttpResponse(503, [detail |-> "Unable to fetch real address from network at this time."])
    ELSE IF IsRaised(persona)
    THEN HttpResponse(500, [detail |-> "Internal Server Error"])
    ELSE LET body == [name |-> persona.name,
                      phone |-> persona.phone,
                      address |-> real_address_data.address,
                      city_state |-> CityState(real_address_data),
                      zipcode |-> real_address_data.zipcode,
                      country |-> Or(real_address_data.country, country_code),
                      full_address |-> real_address_data.full_address]
         IN  IF ResponseValid(body) THEN HttpResponse(200, body)
             ELSE HttpResponse(500, [detail |-> "Internal Server Error"])

\* ------------------------------------------------------------------- state

\* Inputs of a request
CountryInputs == {"UK", "brazil", "UnknownLand"}
CityInputs == {None, "", "Paris"}
ZipInputs == {None, "", "90210"}
StateInputs == {None, "CA"}

\* The longest a caller takes between two steps, and the clock at start
MaxLatency == 1
Epoch == 20

\* The time the one caller takes to reach the clock read of line 46 after its
\* previous step: short, or longer than the spacing (a slow or timed-out GET)
Latencies == (0..MaxLatency) \cup {Gap + MaxLatency}

NoQuery == [q |-> None]
NoReply == [raised |-> FALSE, status |-> 0, results |-> <<>>]
NoResponse == [status |-> 0]
NoRequest == [country |-> None]
Pending == [pending |-> TRUE]

\* A result whose address is a JSON object
HasAddressObject(r) == "address" \in DOMAIN r /\ r.address # JsonNull

VARIABLES
    pc,                 \* where the cascade of the request is
    req,                \* the inputs of the request
    country_code,       \* the code after normalization and default
    levels,             \* the levels of the queries issued so far, in order
    inflight,           \* the params of the query awaiting the provider's answer
    lastResp,           \* the provider's answer to the last query, once it is in
    returned,           \* what the last _query_nominatim call returned, once it has
    sawValid,           \* some answer so far held a result with an address object
    result,             \* what fetch_real_address returned (or raised)
    persona,            \* what persona_generator.generate returned (or raised)
    response,           \* the HTTP response of the request
    now,                \* the clock
    last_request_time,  \* address_fetcher.last_request_time
    tphase,             \* concurrent callers: where each worker thread is
    tpos,               \* the place of its cascade
    tcode,              \* its country code
    twake,              \* the time its sleep ends
    lastSend,           \* the time the last GET was sent (NoTime: none yet)
    arg,                \* single calls of one function: the argument
    out                 \* and what the function returned (or raised) for it

vars == <<pc, req, country_code, levels, inflight, lastResp, returned, sawValid,
          result, persona, response, now, last_request_time,
          tphase, tpos, tcode, twake, lastSend, arg, out>>

callvars == <<arg, out>>
concvars == <<tphase, tpos, tcode, twake, lastSend>>

seqvars_req == <<pc, req, country_code, levels, inflight, lastResp, returned, sawValid,
                 result, persona, response>>
seqvars == <<seqvars_req, arg, out>>

\* The worker threads of the server that serve requests at the same time
NumCallers == 2
Callers == 1..NumCallers

\* How far the clock runs in the concurrent runs
Horizon == 12

NoTime == 0 - 1

\* Inputs and answers of the concurrent runs
ConcCountryInputs == {"UK", "brazil"}
ConcResponses == {Raises, Http(200, <<>>), Http(200, <<R_full>>)}

\* The server after start-up: the module-level singletons are built and no
\* request has arrived
Started ==
    /\ pc = "idle"
    /\ req = NoRequest
    /\ country_code = None
    /\ levels = <<>>
    /\ inflight = NoQuery
    /\ lastResp = NoReply
    /\ returned = Pending
    /\ sawValid = FALSE
    /\ result = Pending
    /\ persona = Pending
    /\ response = NoResponse
    /\ now = Epoch
    /\ last_request_time = 0
    /\ tphase = [t \in Callers |-> "idle"]
    /\ tpos = [t \in Callers |-> "idle"]
    /\ tcode = [t \in Callers |-> None]
    /\ twake = [t \in Callers |-> 0]
    /\ lastSend = NoTime

Init ==
    /\ Started
    /\ arg = None
    /\ out = Pending

\* generate_address / generate_address_post up to the first outbound query
Request ==
    /\ pc = "idle"
    /\ \E c \in CountryInputs, s \in StateInputs, ci \in CityInputs, z \in ZipInputs :
        /\ req' = [country |-> c, state |-> s, city |-> ci, zipcode |-> z]
        /\ country_code' = CountryCode(c)
        /\ pc' = FirstPos(ci, z)
    /\ UNCHANGED <<levels, inflight, lastResp, returned, sawValid, result, persona,
                   response, now, last_request_time, concvars, callvars>>

\* fetch_real_address returns (or raises) value: the rest of _process_generation
Return(value) ==
    /\ pc' = "done"
    /\ result' = value
    /\ IF IsRaised(value) \/ value = NoAddress
       THEN persona' = persona
       ELSE \E name \in FakeNames(get_faker_locale(country_code)), phone \in SamplePhones :
               persona' = generate(country_code, name, phone)
    /\ response' = Respond(country_code, value, persona')

\* Continue without the "if address: return address" of level 1
Continue_NoReturnAtLevel1(outcome) ==
    IF IsRaised(outcome) /\ ~CaughtAt(pc) THEN Return(outcome)
    ELSE IF ~IsRaised(outcome) /\ outcome # NoAddress /\ pc # "L1" THEN Return(outcome)
    ELSE IF NextPos(pc, country_code) = "return" THEN Return(NoAddress)
    ELSE /\ pc' = NextPos(pc, country_code)
         /\ UNCHANGED <<result, persona, response>>

\* What fetch_real_address does with a value returned or raised at pc
Continue(outcome) ==
    IF IsRaised(outcome) /\ ~CaughtAt(pc) THEN Return(outcome)
    ELSE IF ~IsRaised(outcome) /\ outcome # NoAddress THEN Return(outcome)
    ELSE IF NextPos(pc, country_code) = "return" THEN Return(NoAddress)
    ELSE /\ pc' = NextPos(pc, country_code)
         /\ UNCHANGED <<result, persona, response>>

\* _query_nominatim up to the GET: the wait of the rate limiter (the one caller
\* is never interrupted), the keyword, the params
Query(city, zipcode, state, broad_search) ==
    /\ inflight = NoQuery
    /\ \E k \in 1..Len(search_keywords), lat \in Latencies :
        /\ last_request_time' = ReleaseTime(now + lat, last_request_time)
        /\ now' = last_request_time'
        /\ inflight' = Params(country_code, search_keywords[k], city, zipcode, state,
                              broad_search)
    /\ levels' = Append(levels, LevelOf(pc))
    /\ lastResp' = NoReply
    /\ returned' = Pending
    /\ UNCHANGED <<pc, req, country_code, sawValid, result, persona, response,
                   concvars, callvars>>

\* Level 1: the caller's city, zipcode and state
QuerySpecific ==
    /\ pc = "L1"
    /\ Query(req.city, req.zipcode, req.state, FALSE)

\* QueryRandomCity with the caller's zipcode and state passed on
QueryRandomCity_KeepsInput ==
    /\ pc \in {"L2a", "L2b"}
    /\ \E random_city \in FakeCities(get_faker_locale(country_code)) :
        Query(random_city, req.zipcode, req.state, FALSE)

\* Level 2, one attempt: a random city
QueryRandomCity ==
    /\ pc \in {"L2a", "L2b"}
    /\ \E random_city \in FakeCities(get_faker_locale(country_code)) :
        Query(random_city, None, None, FALSE)

\* Level 2, one attempt in which fake.city() raises: no query is issued
RandomCityRaises ==
    /\ pc \in {"L2a", "L2b"}
    /\ inflight = NoQuery
    /\ Continue(Raised("Exception"))
    /\ UNCHANGED <<req, country_code, levels, inflight, lastResp, returned, sawValid,
                   now, last_request_time, concvars, callvars>>

\* QueryMajorCity with the city taken from the list of any country
QueryMajorCity_AnyList ==
    /\ pc = "L3"
    /\ \E c \in DOMAIN major_cities : \E i \in 1..Len(major_cities[c]) :
        Query(major_cities[c][i], None, None, FALSE)

\* A hardcoded major city
QueryMajorCity ==
    /\ pc = "L3"
    /\ \E i \in 1..Len(major_cities[country_code]) :
        Query(major_cities[country_code][i], None, None, FALSE)

\* Level 3 of the code: the broad search
QueryBroad ==
    /\ pc = "L4"
    /\ Query(None, None, None, TRUE)

\* The provider answers (or the GET fails): the rest of _query_nominatim and
\* what fetch_real_address does with the value
Reply ==
    /\ inflight # NoQuery
    /\ \E resp \in Responses :
        /\ lastResp' = resp
        /\ sawValid' = (sawValid \/ (~resp.raised /\ resp.status = 200 /\
                          \E i \in 1..Len(resp.results) : HasAddressObject(resp.results[i])))
        /\ \E outcome \in QueryReturns(resp) :
            /\ returned' = outcome
            /\ Continue(outcome)
    /\ inflight' = NoQuery
    /\ UNCHANGED <<req, country_code, levels, now, last_request_time,
                   concvars, callvars>>

Next ==
    \/ Request
    \/ QuerySpecific
    \/ QueryRandomCity
    \/ RandomCityRaises
    \/ QueryMajorCity
    \/ QueryBroad
    \/ Reply

Spec == Init /\ [][Next]_vars

\* ------------------------------------------------------ concurrent callers
\* generate_address is a plain def: the server runs each request on a worker
\* thread, and all of them call the one address_fetcher.

\* A request arrives on thread t (no city, zipcode or state)
TRequest(t) ==
    /\ tphase[t] = "idle"
    /\ \E c \in ConcCountryInputs :
        /\ tcode' = [tcode EXCEPT ![t] = CountryCode(c)]
        /\ tpos' = [tpos EXCEPT ![t] = FirstPos(None, None)]
    /\ tphase' = [tphase EXCEPT ![t] = "call"]
    /\ UNCHANGED <<seqvars, now, last_request_time, twake, lastSend>>

\* fake.city() raises in a random-city attempt of thread t
TCityRaises(t) ==
    /\ tphase[t] = "call"
    /\ CaughtAt(tpos[t])
    /\ tpos' = [tpos EXCEPT ![t] = NextPos(tpos[t], tcode[t])]
    /\ UNCHANGED <<seqvars, now, last_request_time, tphase, tcode, twake, lastSend>>

\* _wait_for_rate_limit, lines 46-48: thread t reads the clock and
\* last_request_time and decides whether to sleep
TCheck(t) ==
    /\ tphase[t] = "call"
    /\ LET sleep_time == SleepTime(now, last_request_time)
       IN  IF sleep_time > 0
           THEN /\ tphase' = [tphase EXCEPT ![t] = "sleep"]
                /\ twake' = [twake EXCEPT ![t] = now + sleep_time]
           ELSE /\ tphase' = [tphase EXCEPT ![t] = "store"]
                /\ twake' = twake
    /\ UNCHANGED <<seqvars, now, last_request_time, tpos, tcode, lastSend>>

\* time.sleep(sleep_time) returns, not before the time is over
TWake(t) ==
    /\ tphase[t] = "sleep"
    /\ now >= twake[t]
    /\ tphase' = [tphase EXCEPT ![t] = "store"]
    /\ twake' = [twake EXCEPT ![t] = 0]
    /\ UNCHANGED <<seqvars, now, last_request_time, tpos, tcode, lastSend>>

\* line 52: self.last_request_time = time.time()
TStore(t) ==
    /\ tphase[t] = "store"
    /\ last_request_time' = now
    /\ tphase' = [tphase EXCEPT ![t] = "send"]
    /\ UNCHANGED <<seqvars, now, tpos, tcode, twake, lastSend>>

\* requests.get sends the query of thread t
TSend(t) ==
    /\ tphase[t] = "send"
    /\ lastSend' = now
    /\ tphase' = [tphase EXCEPT ![t] = "await"]
    /\ UNCHANGED <<seqvars, now, last_request_time, tpos, tcode, twake>>

\* The provider answers thread t: the rest of _query_nominatim and the cascade
TReply(t) ==
    /\ tphase[t] = "await"
    /\ \E resp \in ConcResponses : \E outcome \in QueryReturns(resp) :
        IF IsRaised(outcome) /\ ~CaughtAt(tpos[t])
        THEN tphase' = [tphase EXCEPT ![t] = "done"] /\ tpos' = tpos
        ELSE IF ~IsRaised(outcome) /\ outcome # NoAddress
        THEN tphase' = [tphase EXCEPT ![t] = "done"] /\ tpos' = tpos
        ELSE IF NextPos(tpos[t], tcode[t]) = "return"
        THEN tphase' = [tphase EXCEPT ![t] = "done"] /\ tpos' = tpos
        ELSE /\ tphase' = [tphase EXCEPT ![t] = "call"]
             /\ tpos' = [tpos EXCEPT ![t] = NextPos(tpos[t], tcode[t])]
    /\ UNCHANGED <<seqvars, now, last_request_time, tcode, twake, lastSend>>

\* The clock advances
Tick ==
    /\ now < Epoch + Horizon
    /\ now' = now + 1
    /\ UNCHANGED <<seqvars, last_request_time, tphase, tpos, tcode, twake, lastSend>>

NextConc ==
    \/ \E t \in Callers : TRequest(t)
    \/ \E t \in Callers : TCityRaises(t)
    \/ \E t \in Callers : TCheck(t)
    \/ \E t \in Callers : TWake(t)
    \/ \E t \in Callers : TStore(t)
    \/ \E t \in Callers : TSend(t)
    \/ \E t \in Callers : TReply(t)
    \/ Tick

SpecConc == Init /\ [][NextConc]_vars

\* ------------------------------------------------- single calls of a function
\* One call of one function on an argument drawn from a set of arguments: arg
\* is the argument, out is Pending until the call has returned.

\* The text a provider puts under each key of a result
FieldText ==
    [road |-> "Main St", pedestrian |-> "Market Walk", footway |-> "Mill Path",
     street |-> "High Street", house_number |-> "12", amenity |-> "Cafe Uno",
     shop |-> "Corner Shop", name |-> "Old Mill", city |-> "Springfield",
     town |-> "Reading", village |-> "Little Snoring", county |-> "Berkshire",
     municipality |-> "Geneve", state |-> "NY", province |-> "Ontario",
     region |-> "Sul", postcode |-> "10023", country |-> "Brasil",
     display_name |-> "Old Mill, Main St"]

\* A key of a JSON object is absent, or present with an empty or a non-empty text
KeyForms == {"absent", "empty", "text"}

\* The dict with the keys of form that are not absent
Dict(form) ==
    [k \in {j \in DOMAIN form : form[j] # "absent"} |->
        IF form[k] = "empty" THEN "" ELSE FieldText[k]]

StreetKeys == {"road", "pedestrian", "footway", "street", "house_number", "amenity", "shop"}
PlaceKeys == {"city", "town", "village", "county", "municipality", "state", "province",
              "region"}
OtherKeys == {"postcode", "country"}

\* A provider result: its top-level keys and its address object
OsmResult(top, addr) == [k \in {"address"} \cup DOMAIN top |-> IF k = "address" THEN addr ELSE top[k]]

\* The provider results _parse_osm_result is called on here: every choice of
\* the keys of the street line, every choice of the keys of city and state,
\* every choice of the remaining keys, a result whose address is null and a
\* result without an address
StreetResults ==
    {OsmResult(Dict(t), Dict(f)) : t \in [{"name", "display_name"} -> KeyForms],
                                   f \in [StreetKeys -> KeyForms]}

PlaceResults ==
    {OsmResult(Dict(t), Dict(f)) : t \in [{"display_name"} -> {"text"}],
                                   f \in [PlaceKeys -> KeyForms]}

OtherResults ==
    {OsmResult(Dict(t), Dict(f)) : t \in [{"display_name"} -> KeyForms],
                                   f \in [OtherKeys -> KeyForms]}

OsmResults == StreetResults \cup PlaceResults \cup OtherResults \cup {R_null, R_noaddr}

InitParse ==
    /\ Started
    /\ arg \in OsmResults
    /\ out = Pending

\* One call of _parse_osm_result
ParseOsmResult ==
    /\ out = Pending
    /\ out' = parse_osm_result(arg)
    /\ UNCHANGED <<seqvars_req, now, last_request_time, concvars, arg>>

SpecParse == InitParse /\ [][ParseOsmResult]_vars

\* The value a call has returned, when it is a text
Value(v) == [value |-> v]

InitCityState ==
    /\ Started
    /\ arg \in PlaceResults
    /\ out = Pending

\* _process_generation, lines 68-71, on the address parsed from a provider result
FormatCityState ==
    /\ out = Pending
    /\ out' = Value(CityState(parse_osm_result(arg)))
    /\ UNCHANGED <<seqvars_req, now, last_request_time, concvars, arg>>

SpecCityState == InitCityState /\ [][FormatCityState]_vars

\* A key of country_map as a caller may spell it: as it is, in capitals, with
\* a capital first letter, with spaces around it
Spellings(k) ==
    {k, Upper(k), UpperChar(Head(k)) \o Tail(k), " " \o Upper(k) \o "  "}

\* The arguments normalize is called with here
NormalizeInputs ==
    UNION {Spellings(k) : k \in DOMAIN country_map} \cup {None, "", "  ", "Atlantis", "atlantis"}

InitNormalize ==
    /\ Started
    /\ arg \in NormalizeInputs
    /\ out = Pending

\* One call of CountryManager.normalize
Normalize ==
    /\ out = Pending
    /\ out' = Value(normalize(arg))
    /\ UNCHANGED <<seqvars_req, now, last_request_time, concvars, arg>>

SpecNormalize == InitNormalize /\ [][Normalize]_vars

\* The examples phonenumbers may hold for a region, and the calls that may raise
PhoneInputs ==
    [example : {Example(cc, n) : cc \in CallingCodes, n \in 1..MaxNational} \cup {NoExample},
     fails : PhoneFailures]

InitPhone ==
    /\ Started
    /\ arg \in PhoneInputs
    /\ out = Pending

\* One call of PersonaGenerator._generate_phone_number
GeneratePhone ==
    /\ out = Pending
    /\ \E phone \in generate_phone_number(arg.example, arg.fails) : out' = Value(phone)
    /\ UNCHANGED <<seqvars_req, now, last_request_time, concvars, arg>>

SpecPhone == InitPhone /\ [][GeneratePhone]_vars

\* Tags of faker.config.AVAILABLE_LOCALES with their Babel territory: two
\* territories with several tags and a tag without a territory
LocaleTags ==
    { [loc |-> "en_CA", terr |-> "CA"], [loc |-> "fr_CA", terr |-> "CA"],
      [loc |-> "fr_CH", terr |-> "CH"], [loc |-> "de_CH", terr |-> "CH"],
      [loc |-> "it_CH", terr |-> "CH"], [loc |-> "de", terr |-> None] }

\* The orders in which the list may hold these tags
LocaleLists ==
    {l \in [1..Cardinality(LocaleTags) -> LocaleTags] :
        \A i, j \in 1..Cardinality(LocaleTags) : l[i] = l[j] => i = j}

\* The codes get_faker_locale is called with
IsoCodeInputs == {"CA", "CH", "US", "ZZ", "ch", "", None}

InitLocale ==
    /\ Started
    /\ arg \in [locales : LocaleLists, iso_code : IsoCodeInputs]
    /\ out = Pending

\* CountryManager() built over the list, then one call of get_faker_locale
GetFakerLocale ==
    /\ out = Pending
    /\ out' = Value(get_faker_locale_of(build_faker_map(arg.locales), arg.iso_code))
    /\ UNCHANGED <<seqvars_req, now, last_request_time, concvars, arg>>

SpecLocale == InitLocale /\ [][GetFakerLocale]_vars

\* ------------------------------------------------------------------ claims

IsAddress(v) == "address" \in DOMAIN v

\* C1: the queries of a call are issued in level order: specific input (1),
\* random city (2), major city (3), broad (4); no query of a later level comes
\* before a query of an earlier level.
C1_LevelOrder ==
    \A i \in 1..Len(levels) : \A j \in 1..Len(levels) : i < j => levels[i] <= levels[j]

C1_Witness == levels = <<1, 2, 2, 3, 4>> /\ pc = "done"

\* C2: the call stops at the first success: when a query returns a parsed
\* address the call has returned exactly that address, which is the parse of a
\* result of that query's answer, and no further query is issued.
C2_StopAtFirstSuccess ==
    IsAddress(returned) =>
        /\ pc = "done"
        /\ result = returned
        /\ inflight = NoQuery
        /\ \E i \in 1..Len(lastResp.results) : result = parse_osm_result(lastResp.results[i])

C2_Witness ==
    /\ pc = "done" /\ levels = <<1, 2>>
    /\ req.city = "Paris"
    /\ result = parse_osm_result(R_town)

\* C3: fetch_real_address returns None if and only if no answer of the call
\* held a valid (address-bearing) result.
C3_NoneIffNoValid ==
    pc = "done" /\ ~IsRaised(result) => (result = NoAddress <=> ~sawValid)

\* C6: a query with a non-200 answer, a timeout or a network error returns no
\* result; no exception escapes the call, and the cascade goes on to its next
\* attempt or level (or gives up after the last) as for an empty result list.
TransportFailure(resp) == resp.raised \/ resp.status # 200

C6_TransportFailureIsNoResult ==
    [][ (inflight # NoQuery /\ inflight' = NoQuery /\ TransportFailure(lastResp')) =>
            /\ returned' = NoAddress
            /\ ~IsRaised(result')
            /\ IF NextPos(pc, country_code) = "return"
               THEN pc' = "done" /\ result' = NoAddress
               ELSE pc' = NextPos(pc, country_code) /\ result' = Pending ]_vars

C6_Witness ==
    /\ pc = "L2b" /\ levels = <<1, 2>> /\ inflight = NoQuery
    /\ lastResp = Raises /\ returned = NoAddress

\* C7: a request gets 503 exactly when fetch_real_address returns no address,
\* and a request whose geocode resolution succeeds gets 200 with name, phone,
\* address, city_state, zipcode, country and full_address.
C7_Only503 ==
    pc = "done" =>
        /\ (response.status = 503 <=> result = NoAddress)
        /\ (IsAddress(result) =>
               /\ response.status = 200
               /\ DOMAIN response.body = {"name", "phone", "address", "city_state",
                                          "zipcode", "country", "full_address"})

\* C8: when the country input normalizes to no code, the geocode client is
\* called with "US" and the request returns 200.
C8_UnknownCountryDefaults ==
    (pc = "done" /\ normalize(req.country) = None /\ IsAddress(result)) =>
        /\ country_code = "US"
        /\ response.status = 200

\* C9: generate returns a record with a name and a phone and never raises.
C9_GenerateNeverRaises ==
    persona # Pending => ~IsRaised(persona) /\ DOMAIN persona = {"name", "phone"}

\* C10: when a zipcode is supplied the first query is the level-1 query; its
\* q is the keyword, "in {zipcode}", "in {city}" if a city was supplied, then
\* the state if supplied; countrycodes is the country code.
C10_ZipcodeFirstQuery ==
    (Len(levels) = 1 /\ inflight # NoQuery /\ Truthy(req.zipcode)) =>
        /\ levels[1] = 1
        /\ \E k \in 1..Len(search_keywords) :
              inflight.q = search_keywords[k] \o " in " \o req.zipcode
                           \o (IF Truthy(req.city) THEN " in " \o req.city ELSE "")
                           \o (IF Truthy(req.state) THEN " " \o req.state ELSE "")
        /\ Contains(inflight.q, req.zipcode)
        /\ inflight.countrycodes = country_code

\* C4: whatever the interleaving of the requests sharing address_fetcher, a
\* query is sent at least 1.1 s after the previous query was sent.
C4_SendsSpaced ==
    [][ \A t \in Callers :
            (tphase[t] = "send" /\ tphase'[t] = "await" /\ lastSend # NoTime) =>
                now - lastSend >= Gap ]_vars

\* C5: no two callers are at once between reading last_request_time and
\* writing it back in _wait_for_rate_limit.
InWait(t) == tphase[t] \in {"sleep", "store"}

C5_CheckAndUpdateExclusive ==
    \A t \in Callers : \A u \in Callers : (InWait(t) /\ InWait(u)) => t = u

C10_Witness ==
    /\ Len(levels) = 1 /\ inflight.q = "post office in 90210 in Paris CA"
    /\ inflight.countrycodes = "GB"

\* C11: the address of every record _parse_osm_result returns is a non-empty
\* text, and it is "Unknown Street" when the result has no non-empty road,
\* pedestrian, footway, street, amenity, shop or name
C11_AddressNeverEmpty ==
    IsAddress(out) =>
        LET addr == IF "address" \in DOMAIN arg THEN arg.address ELSE [k \in {} |-> ""]
            named == \/ \E k \in StreetKeys \ {"house_number"} : Truthy(Get(addr, k))
                     \/ Truthy(Get(arg, "name"))
        IN  /\ out.address # None
            /\ Len(out.address) > 0
            /\ (~named => out.address = "Unknown Street")

C11_Witness ==
    /\ IsAddress(out)
    /\ out.address = "Unknown Street"
    /\ Get(arg.address, "road") = ""
    /\ Get(arg, "name") = ""
    /\ Get(arg.address, "house_number") = "12"

\* C12: city_state is "{city}, {state}" when the address has both, the city
\* alone or the state alone when the other is absent, and "" when both are
\* absent; it never begins or ends with a comma or a space
C12_CityStateFormat ==
    "value" \in DOMAIN out =>
        LET data == parse_osm_result(arg)
            c == data.city
            s == data.state
            sep == {",", " "}
        IN  /\ out.value = IF Truthy(c) /\ Truthy(s) THEN c \o ", " \o s
                            ELSE IF Truthy(c) THEN c
                            ELSE IF Truthy(s) THEN s
                            ELSE ""
            /\ out.value # "" =>
                  /\ Head(out.value) \notin sep
                  /\ Ch(out.value, Len(out.value)) \notin sep

C12_Witness ==
    /\ "value" \in DOMAIN out
    /\ out.value = "Ontario"
    /\ Get(arg.address, "city") = ""
    /\ "state" \notin DOMAIN arg.address

\* C13: normalize is case-insensitive and idempotent: an input that differs
\* from the argument only in the case of its letters normalizes to the same
\* result, and a code normalize returns, when it is itself a key of the map,
\* normalizes to itself
C13_CaseInsensitiveIdempotent ==
    "value" \in DOMAIN out =>
        /\ \A other \in NormalizeInputs \ {None} :
              (arg # None /\ Lower(other) = Lower(arg)) => normalize(other) = out.value
        /\ (out.value # None /\ Lower(out.value) \in DOMAIN country_map)
              => normalize(out.value) = out.value

C13_Witness ==
    /\ "value" \in DOMAIN out
    /\ arg = "South korea"
    /\ out.value = "KR"
    /\ normalize("SOUTH KOREA") = "KR"
    /\ normalize("KR") = "KR"

\* The caller supplied a state and neither a city nor a zipcode
OnlyState == pc # "idle" /\ ~Truthy(req.city) /\ ~Truthy(req.zipcode) /\ Truthy(req.state)

\* The level-1 query is issued if and only if the caller supplied a non-empty
\* city or zipcode
SpecificIffSupplied ==
    pc # "idle" =>
        LET supplied == Truthy(req.city) \/ Truthy(req.zipcode)
        IN  /\ \A i \in 1..Len(levels) : levels[i] = 1 => (i = 1 /\ supplied)
            /\ supplied => IF levels = <<>> THEN pc = "L1" ELSE levels[1] = 1

\* The supplied state is in no query of a call that supplied only a state
StateInNoQuery == (OnlyState /\ inflight # NoQuery) => ~Contains(inflight.q, req.state)

\* C14 as stated: the level-1 query is issued if and only if the caller
\* supplied a non-empty city or zipcode; when only a state is supplied the
\* first query of the call is a random-city query and the state is in no query
C14_StateOnlyStartsRandomCity ==
    /\ SpecificIffSupplied
    /\ (OnlyState /\ levels # <<>>) => levels[1] = 2
    /\ StateInNoQuery

\* C14, amended: the level-1 query is issued if and only if the caller
\* supplied a non-empty city or zipcode; when only a state is supplied the
\* first query of the call is a random-city query, or the major-city or broad
\* query when no random-city query was issued at all (generating the city
\* raised in both attempts), and the state is in no query
C14_StateOnlySkipsSpecific ==
    /\ SpecificIffSupplied
    /\ (OnlyState /\ levels # <<>>) =>
          \/ levels[1] = 2
          \/ levels[1] \in {3, 4} /\ \A i \in 1..Len(levels) : levels[i] # 2
    /\ StateInNoQuery

C14_Witness ==
    /\ OnlyState
    /\ levels = <<2>>
    /\ inflight # NoQuery
    /\ Contains(inflight.q, "Leeds")

\* C15: with one caller, every query of a cascade (the first one, and one
\* that follows a failed, non-200 or timed-out query) is released at least
\* 1.1 s after the release time recorded for the previous query, and the wait
\* does not grow: the query is released exactly 1.1 s after the previous
\* release, or without any wait when the caller reached the limiter later
C15_SingleCallerSpacing ==
    [][Len(levels') > Len(levels) =>
          /\ last_request_time' >= last_request_time + Gap
          /\ \/ last_request_time' = last_request_time + Gap
             \/ last_request_time' - now \in Latencies]_vars

C15_Witness ==
    /\ Len(levels) = 3
    /\ inflight # NoQuery
    /\ last_request_time = Epoch + Gap + Gap

\* The elements of a list
Elements(list) == {list[i] : i \in 1..Len(list)}

\* The text of a query for a keyword and one city
KeywordInCity(cities) ==
    {search_keywords[k] \o " in " \o c : k \in 1..Len(search_keywords), c \in cities}

\* The texts of the random-city queries of a locale, of the major-city queries
\* of a country code, and of the broad queries
RandomCityTexts ==
    [loc \in {iso_to_faker[t] : t \in DOMAIN iso_to_faker} \cup {"en_US"} |->
        KeywordInCity(FakeCities(loc))]

MajorCityTexts == [c \in DOMAIN major_cities |-> KeywordInCity(Elements(major_cities[c]))]

BroadTexts == {search_keywords[k] \o " in" : k \in 1..Len(search_keywords)}

\* C16: the random-city level makes at most 2 attempts, each query with a city
\* generated for the attempt; an attempt that ends without an address (no
\* result, or an exception, also one raised while generating the city) is
\* followed by the second attempt, and the second by the next level: the call
\* neither returns nor raises there
C16_RandomCityAttempts ==
    [][ /\ Cardinality({i \in 1..Len(levels') : levels'[i] = 2}) <= 2
        /\ (Len(levels') > Len(levels) /\ pc \in {"L2a", "L2b"}) =>
              inflight'.q \in RandomCityTexts[get_faker_locale(country_code)]
        /\ (pc \in {"L2a", "L2b"} /\ pc' # pc) =>
              \/ pc' = "done" /\ IsAddress(result') /\ result' = returned'
              \/ /\ result' = Pending
                 /\ IF pc = "L2a" THEN pc' = "L2b" ELSE pc' \in {"L3", "L4"} ]_vars

C16_Witness ==
    /\ pc = "L4"
    /\ levels = <<2>>
    /\ inflight = NoQuery
    /\ returned = NoAddress
    /\ result = Pending

\* C17: a major-city query is issued only for a country code that has a
\* curated list, with a city of that country's list; the cascade is at the
\* major-city level only for such a code, and it reaches the broad query
\* after a major-city query if the code has a list and without any
\* major-city query, directly from the random-city level, if it has none
C17_MajorCityOnlyWithList ==
    LET listed == country_code \in DOMAIN major_cities
        major == \E i \in 1..Len(levels) : levels[i] = 3
    IN  /\ major => listed
        /\ pc = "L3" => listed
        /\ pc = "L4" => (listed <=> major)
        /\ (inflight # NoQuery /\ levels[Len(levels)] = 3) =>
              inflight.q \in MajorCityTexts[country_code]
        /\ (\E i \in 1..Len(levels) : levels[i] = 4) => (listed <=> major)

C17_Witness ==
    /\ country_code = "BR"
    /\ levels = <<2, 2, 4>>
    /\ inflight # NoQuery

\* The parameters of a GET: the query text and the fixed ones
ParamKeys == {"q", "countrycodes", "format", "addressdetails", "limit", "accept_language"}

\* C18: a query of a later level than the first carries nothing of the
\* caller's city, zipcode or state: the text of a random-city or major-city
\* query is the keyword and the generated or curated city, the text of the
\* broad query is exactly "{keyword} in", and the only constraint next to the
\* text is countrycodes
C18_LaterQueriesDropInput ==
    (inflight # NoQuery /\ levels[Len(levels)] > 1) =>
        LET level == levels[Len(levels)]
            q == inflight.q
        IN  /\ level = 2 => q \in RandomCityTexts[get_faker_locale(country_code)]
            /\ level = 3 => q \in MajorCityTexts[country_code]
            /\ level = 4 => q \in BroadTexts
            /\ \A f \in {"city", "zipcode", "state"} : Truthy(req[f]) => ~Contains(q, req[f])
            /\ DOMAIN inflight = ParamKeys
            /\ inflight.countrycodes = country_code

C18_Witness ==
    /\ levels = <<1, 2, 2, 4>>
    /\ inflight # NoQuery
    /\ inflight.q = "cafe in"
    /\ req.city = "Paris" /\ req.zipcode = "90210" /\ req.state = "CA"

\* C19: a call issues at most (1 if city or zipcode was supplied) + 2 + (1 if
\* the country has a major-city list) + 1 queries, never more than 5, and it
\* terminates: until it has returned it can always take its next step
C19_BoundedQueries ==
    pc # "idle" =>
        /\ Len(levels) <= (IF Truthy(req.city) \/ Truthy(req.zipcode) THEN 1 ELSE 0) + 2
                           + (IF country_code \in DOMAIN major_cities THEN 1 ELSE 0) + 1
        /\ Len(levels) <= 5
        /\ pc # "done" => ENABLED <<Next>>_vars
        /\ pc = "done" => result # Pending /\ inflight = NoQuery

C19_Witness ==
    /\ pc = "done"
    /\ result = NoAddress
    /\ Len(levels) = 5
    /\ lastResp = Http(403, <<>>)

\* C20: the address a successful query returns is the parse of a result of
\* that query's own answer that has an address substructure; a result without
\* one is never the one selected, also when it is the first of the list
C20_SelectedHasAddress ==
    IsAddress(returned) =>
        LET results == lastResp.results
        IN  /\ lastResp.status = 200
            /\ \E i \in 1..Len(results) :
                  "address" \in DOMAIN results[i] /\ returned = parse_osm_result(results[i])
            /\ \A i \in 1..Len(results) :
                  "address" \notin DOMAIN results[i] => returned # parse_osm_result(results[i])

C20_Witness ==
    /\ lastResp = Http(200, <<R_noaddr, R_town>>)
    /\ returned = parse_osm_result(R_town)
    /\ "address" \notin DOMAIN lastResp.results[1]

\* A result whose address substructure is an object with at least one key
NonEmptyAddress(r) == HasAddressObject(r) /\ DOMAIN r.address # {}

\* C21: a query is successful if and only if its answer is a 200 response
\* with at least one result that has a non-empty address substructure: results
\* whose address is missing, null or empty give no result, and one result with
\* a non-empty address always gives an address
C21_SuccessIffNonEmptyAddress ==
    (lastResp # NoReply /\ returned # Pending) =>
        (IsAddress(returned) <=>
            /\ ~lastResp.raised
            /\ lastResp.status = 200
            /\ \E i \in 1..Len(lastResp.results) : NonEmptyAddress(lastResp.results[i]))

\* The value of the first key of keys that d holds with a non-empty value,
\* None when it holds none
FirstPresent(d, keys) ==
    LET held == {i \in 1..Len(keys) : Truthy(Get(d, keys[i]))}
    IN  IF held = {} THEN None ELSE d[keys[CHOOSE i \in held : \A j \in held : i <= j]]

\* The precedence function of the parse: the street line, the place named by
\* own_name when there is no street, the settlement and the region
ParsedAsReference(own_name) ==
    IsAddress(out) =>
        LET addr == IF "address" \in DOMAIN arg THEN arg.address ELSE [k \in {} |-> ""]
            street == FirstPresent(addr, <<"road", "pedestrian", "footway", "street">>)
            house == FirstPresent(addr, <<"house_number">>)
            place == FirstPresent(addr, <<"amenity", "shop">>)
            own == FirstPresent(arg, <<own_name>>)
            city == FirstPresent(addr, <<"city", "town", "village", "county", "municipality">>)
            state == FirstPresent(addr, <<"state", "province", "region">>)
        IN  /\ out.address =
                  IF street # None
                  THEN (IF house # None THEN house \o " " \o street ELSE street)
                  ELSE IF place # None THEN place
                  ELSE IF own # None THEN own
                  ELSE "Unknown Street"
            /\ city # None => out.city = city
            /\ state # None => out.state = state

\* C22 as stated: the parse is the precedence function: street = first present
\* of road, pedestrian, footway, street, prefixed by the house number when
\* there is one; with no street, the first present of amenity, shop, the
\* result's display name, else "Unknown Street"; city = first present of city,
\* town, village, county, municipality; state = first present of state,
\* province, region
C22_ParseByDisplayName == ParsedAsReference("display_name")

\* C22, amended: as above, with the result's name (its name key, not its
\* display_name) after amenity and shop
C22_ParseByName == ParsedAsReference("name")

C22_Witness ==
    /\ IsAddress(out)
    /\ out.address = "Old Mill"
    /\ Get(arg, "display_name") = "Old Mill, Main St"
    /\ Get(arg.address, "road") = ""
    /\ Get(arg.address, "house_number") = "12"

\* The address object of a provider result ({} when it has none)
AddressOf(r) == IF "address" \in DOMAIN r THEN r.address ELSE [k \in {} |-> ""]

\* The fields of a parsed address that may be null
NullableFields == {"city", "state", "zipcode", "country"}

\* The keys of the provider's address object a field of the parse is read from
KeysOf(field) ==
    CASE field = "city" -> {"city", "town", "village", "county", "municipality"}
      [] field = "state" -> {"state", "province", "region"}
      [] field = "zipcode" -> {"postcode"}
      [] field = "country" -> {"country"}

\* A field whose keys are all absent from the provider record is null
AbsentIsNull ==
    IsAddress(out) =>
        \A f \in NullableFields :
            (\A k \in KeysOf(f) : k \notin DOMAIN AddressOf(arg)) => out[f] = None

\* C23 as stated: city, state, zipcode and country of a parsed record are a
\* non-empty text or null; a field absent from the provider record is null,
\* and none of them is ever the empty string
C23_NullOrNonEmpty ==
    /\ AbsentIsNull
    /\ IsAddress(out) => \A f \in NullableFields : out[f] # ""

\* C23, amended: a field absent from the provider record is null, and a field
\* is the empty string only when the provider record holds the empty string
\* under one of the field's keys and a non-empty text under none of them
C23_EmptyOnlyFromProvider ==
    /\ AbsentIsNull
    /\ IsAddress(out) =>
          \A f \in NullableFields :
              /\ out[f] = "" =>
                    /\ \E k \in KeysOf(f) : Get(AddressOf(arg), k) = ""
                    /\ \A k \in KeysOf(f) : ~Truthy(Get(AddressOf(arg), k))
              /\ out[f] \notin {"", None} => \E k \in KeysOf(f) : Get(AddressOf(arg), k) = out[f]

C23_Witness ==
    /\ IsAddress(out)
    /\ out.city = None
    /\ out.state = ""
    /\ Get(arg.address, "region") = ""
    /\ Get(arg.address, "state") = None

\* A phone with the spaces of its formatting removed
RECURSIVE Unformat(_)
Unformat(s) ==
    IF s = "" THEN "" ELSE (IF Head(s) = " " THEN "" ELSE Head(s)) \o Unformat(Tail(s))

\* The call returned a phone made from an example
FromExample ==
    "value" \in DOMAIN out /\ arg.example # NoExample /\ arg.fails \in {"none", "parse"}

\* The positions at which the returned phone differs from the example (the
\* random digits of the model are digits no example has)
Replaced ==
    LET e == E164(arg.example)
        d == Unformat(out.value)
    IN  {i \in 1..Len(e) : Ch(d, i) # Ch(e, i)}

\* The returned phone has the digits of the example but for a suffix of at
\* most 6 digits, none of them in the '+' and the calling code
SuffixReplaced ==
    LET e == E164(arg.example)
    IN  /\ Len(Unformat(out.value)) = Len(e)
        /\ \A i \in Replaced : i > 1 + Len(arg.example.country_code)
        /\ \A i \in Replaced : \A j \in i..Len(e) : j \in Replaced
        /\ Cardinality(Replaced) <= 6

\* C24 as stated: for every length of the example the mutated phone keeps the
\* '+', the calling code and the first 2 digits of the national number, and
\* replaces only a suffix of at most 6 digits, 4 to 6 when the number is long
\* enough; the suffix never reaches into the calling code
C24_KeepsTwoNationalDigits ==
    FromExample =>
        LET cc_len == Len(arg.example.country_code)
            n == Len(arg.example.national)
        IN  /\ SuffixReplaced
            /\ \A i \in Replaced : i > 1 + cc_len + Min(2, n)
            /\ n >= 6 => Cardinality(Replaced) \in 4..6

\* C24, amended: the mutated phone keeps the '+' and the calling code; when
\* the national number has 6 digits or more it keeps its first 2 digits and
\* replaces the last min(n - 2, 6) digits (4 to 6); when it has fewer than 6
\* it keeps only its first digit and replaces the other n - 1 (0 to 4)
C24_KeepsTwoWhenLong ==
    FromExample =>
        LET cc_len == Len(arg.example.country_code)
            n == Len(arg.example.national)
        IN  /\ SuffixReplaced
            /\ n >= 6 => /\ \A i \in Replaced : i > 1 + cc_len + 2
                          /\ Cardinality(Replaced) = Min(n - 2, 6)
                          /\ Cardinality(Replaced) \in 4..6
            /\ n < 6 => /\ \A i \in Replaced : i > 1 + cc_len + 1
                         /\ Cardinality(Replaced) = n - 1

C24_Witness ==
    /\ FromExample
    /\ arg.example = Example("290", 5)
    /\ arg.fails = "none"
    /\ out.value = "+290 70990"

\* The call mutated the example and the parse or the formatting of the
\* mutated number raised
MutatedNumberRaised ==
    /\ "value" \in DOMAIN out
    /\ arg.example # NoExample
    /\ arg.fails \in {"parse", "international"}
    /\ num_digits_to_randomize(E164(arg.example), Len(arg.example.country_code)) > 0

\* The call found no example, or a call outside the inner try raised
NoUsableExample ==
    /\ "value" \in DOMAIN out
    /\ \/ arg.example = NoExample
       \/ arg.fails \in {"example", "e164"}
       \/ /\ arg.fails = "international"
          /\ num_digits_to_randomize(E164(arg.example), Len(arg.example.country_code)) = 0

C26_LocaleChoice ==
    "value" \in DOMAIN out =>
        LET l == arg.locales
            idx == IF Truthy(arg.iso_code)
                   THEN {i \in 1..Len(l) : l[i].terr = arg.iso_code} ELSE {}
            en == {i \in idx : SubSeq(l[i].loc, 1, 3) = "en_"}
        IN  /\ out.value \notin {"", None}
            /\ idx = {} => out.value = "en_US"
            /\ en # {} => \E i \in en : out.value = l[i].loc /\ \A j \in en : i <= j
            /\ (idx # {} /\ en = {}) =>
                  /\ \E i \in idx : out.value = l[i].loc
                  /\ \A j \in idx : StrLeq(out.value, l[j].loc)
                  /\ out.value = "de_CH"

C26_Witness ==
    /\ "value" \in DOMAIN out
    /\ arg.iso_code = "CH"
    /\ arg.locales[1].loc = "it_CH"
    /\ arg.locales[2].loc = "fr_CH"
    /\ out.value = "de_CH"
====
